---- MODULE Spec2Model ----
(***************************************************************************)
(* Request admission of the idiomatic-go HTTP service: the gin handler     *)
(* chain built by main (Logger, RateLimit, Prometheus, ErrorLogging, then  *)
(* AuthMiddleware on the /users group, then the route handler), the        *)
(* rate-limit middleware and the GCRA script it runs in the shared store.  *)
(*                                                                         *)
(* Time is counted in whole seconds.  Strings that the code builds from    *)
(* numbers are sequences of code points, so that string(rune(n)) and       *)
(* strconv.Itoa(n) are different conversions.                              *)
(***************************************************************************)
EXTENDS Integers, Sequences, FiniteSets, TLC

(* ------------------------------- bounds -------------------------------- *)

NReq == 3            \* requests whose checks race on the store
MaxTime == 2         \* the clock stops advancing here
Rate == 2            \* config.Rate (RATE_LIMIT), requests per period
EmissionSecs == 2    \* config.Period / config.Rate, seconds per unit

Reqs == 1..NReq
Keys == {"10.0.0.1"}                 \* values of c.ClientIP()
Routes == {"/login", "/users"}
Period == EmissionSecs * Rate        \* config.Period (RATE_PERIOD)
JWTSecret == "your-secret-key"         \* config.JWTSecret

VARIABLES
    now,      \* wall clock, seconds (time.Now() and the store's TIME)
    rdb,      \* the redis client the limiter uses: "unset", "open", "closed"
    store,    \* the shared store: key -> [present, tat, exp]
    req,      \* request id -> the request's gin.Context and position
    win,      \* history: key -> what the checks since its bucket was last empty were told
    boot,     \* main's start-up: the environment, config and the limit it yields
    db,       \* the database: committed users and audit_logs rows, the id sequence
    call      \* the call of the user handlers in progress, and its transaction

vars == <<now, rdb, store, req, win, boot, db, call>>

(* ------------------------------ helpers -------------------------------- *)

Max(a, b) == IF a >= b THEN a ELSE b

RECURSIVE Digits(_)
Digits(n) == IF n < 10 THEN <<48 + n>> ELSE Append(Digits(n \div 10), 48 + (n % 10))

\* strconv.Itoa: the decimal text of n
Itoa(n) == IF n < 0 THEN <<45>> \o Digits(-n) ELSE Digits(n)

\* string(rune(n)): the one character whose code point is n (U+FFFD if n is
\* no valid code point)
RuneString(n) ==
    IF n < 0 \/ n > 1114111 \/ (n >= 55296 /\ n <= 57343) THEN <<65533>> ELSE <<n>>

\* time.Duration.String() of a whole number of seconds below one minute
DurationString(d) == Itoa(d) \o <<115>>

\* Time.Format(time.RFC1123): the instant, at one-second resolution
FormatRFC1123(t) == t

(* ---------------------------- request state ---------------------------- *)

NoRes == [Allowed |-> 0, Remaining |-> 0, RetryAfter |-> 0, ResetAfter |-> 0]
NoCtx == [has |-> FALSE, user_id |-> 0, role |-> ""]
NoHeaders == [Limit |-> <<>>, Remaining |-> <<>>, Reset |-> -1, RetryAfter |-> <<>>]

\* context.Background(): it has no deadline (-1) and is never cancelled
Background == [deadline |-> -1, cancellable |-> FALSE]

\* a gin.Context taken from the engine's pool, before ServeHTTP
NewRequest ==
    [pc |-> "new", index |-> 1, route |-> "", key |-> "", err |-> "",
     res |-> NoRes, aborted |-> FALSE, status |-> 0, code |-> "",
     hdr |-> NoHeaders, authz |-> <<>>, ctx |-> NoCtx, seen |-> NoCtx, ran |-> {},
     handlerRuns |-> 0, logged |-> 0, metered |-> 0, callctx |-> Background,
     cancelled |-> FALSE]

NoEntry == [present |-> FALSE, tat |-> 0, exp |-> 0]
NoWindow == [first |-> -1, granted |-> 0, refused |-> FALSE]

\* A bearer token: a structure that decodes or not, the claims it carries,
\* its expiry (-1: none) and the secret its HS256 signature was made with.
Garbage == [wellformed |-> FALSE, user_id |-> 0, role |-> "", exp |-> -1, key |-> ""]
Token(uid, role, exp, key) ==
    [wellformed |-> TRUE, user_id |-> uid, role |-> role, exp |-> exp, key |-> key]

\* the users and audit_logs tables, empty, and the users' id sequence
NoRows == [users |-> {}, audits |-> {}, seq |-> 1]

NoUser == [id |-> 0, username |-> "", email |-> "", password_hash |-> <<>>, role |-> ""]

\* a transaction: none, open, committed or rolled back, and the rows it wrote
NoTx == [state |-> "none", users |-> {}, audits |-> {}]

\* what AuthMiddleware made of a token presented to it
NoGate == [presented |-> FALSE, secret |-> "", at |-> 0, q |-> NewRequest]

\* no call of the user handlers is in progress
NoCall ==
    [op |-> "none", pc |-> "idle", email |-> "", username |-> "", password |-> "",
     hash |-> <<>>, tx |-> NoTx, began |-> FALSE, commits |-> 0, rollbacks |-> 0,
     fnErr |-> "", rbErr |-> "", commitErr |-> "", err |-> "", user |-> NoUser,
     status |-> 0, token |-> Garbage, iat |-> 0, gate |-> NoGate]

\* everything but the start-up of main
InitServer ==
    /\ now = 0
    /\ rdb = "unset"
    /\ store = [k \in Keys |-> NoEntry]
    /\ req = [r \in Reqs |-> NewRequest]
    /\ win = [k \in Keys |-> NoWindow]
    /\ db = NoRows
    /\ call = NoCall

(* ------------------------------ the clock ------------------------------ *)

Tick ==
    /\ now < MaxTime
    /\ now' = now + 1
    /\ UNCHANGED <<rdb, store, req, win, boot, db, call>>

\* per-key expiry in the store (SET ... EX)
Expire(k) ==
    /\ store[k].present
    /\ now >= store[k].exp
    /\ store' = [store EXCEPT ![k] = NoEntry]
    /\ UNCHANGED <<now, rdb, req, win, boot, db, call>>

(* ------------------------- main's configuration ----------------------- *)

\* a variable of the environment: not set, or set to a text
Unset == [set |-> FALSE, text |-> <<>>]
Setting(s) == [set |-> TRUE, text |-> s]

RECURSIVE ParseUint(_)
ParseUint(s) ==
    IF s = <<>> THEN 0
    ELSE 10 * ParseUint(SubSeq(s, 1, Len(s) - 1)) + (s[Len(s)] - 48)

AllDigits(s) == s # <<>> /\ \A i \in 1..Len(s) : s[i] \in 48..57

\* strconv.Atoi(s): an optional sign and decimal digits, or an error
Atoi(s) ==
    LET signed == s # <<>> /\ s[1] \in {43, 45}
        body == IF signed THEN Tail(s) ELSE s
    IN  IF ~AllDigits(body) THEN [ok |-> FALSE, val |-> 0]
        ELSE [ok |-> TRUE,
              val |-> IF s[1] = 45 THEN -ParseUint(body) ELSE ParseUint(body)]

\* time.ParseDuration(s), in seconds, of the texts made of an optional sign,
\* a whole number and one unit s or m, and of "0"; any other text here is one
\* it rejects
ParseDuration(s) ==
    LET signed == s # <<>> /\ s[1] \in {43, 45}
        body == IF signed THEN Tail(s) ELSE s
        num == IF body = <<>> THEN <<>> ELSE SubSeq(body, 1, Len(body) - 1)
        unit == IF body = <<>> THEN 0 ELSE body[Len(body)]
        sign == IF signed /\ s[1] = 45 THEN -1 ELSE 1
    IN  IF body = <<48>> THEN [ok |-> TRUE, val |-> 0]
        ELSE IF AllDigits(num) /\ unit = 115
             THEN [ok |-> TRUE, val |-> sign * ParseUint(num)]
        ELSE IF AllDigits(num) /\ unit = 109
             THEN [ok |-> TRUE, val |-> sign * 60 * ParseUint(num)]
        ELSE [ok |-> FALSE, val |-> 0]

getEnv(v, fallback) == IF v.set THEN v.text ELSE fallback

getEnvInt(v, fallback) == IF v.set /\ Atoi(v.text).ok THEN Atoi(v.text).val ELSE fallback

DefaultRateLimit == 100            \* getEnvInt("RATE_LIMIT", 100)
DefaultRatePeriod == <<49, 109>>   \* getEnv("RATE_PERIOD", "1m")

\* redis_rate.Limit{Rate: config.Rate, Burst: config.Rate, Period: config.Period}
LimitOf(config) == [Rate |-> config.Rate, Burst |-> config.Rate, Period |-> config.Period]

NoLimit == [Rate |-> 0, Burst |-> 0, Period |-> 0]

\* the process is started with RATE_LIMIT = rl and RATE_PERIOD = rp
Started(rl, rp) ==
    [pc |-> "start", RATE_LIMIT |-> rl, RATE_PERIOD |-> rp,
     RateLimit |-> 0, RatePeriod |-> <<>>, ratePeriod |-> 0, limit |-> NoLimit]

\* config := Config{..., RateLimit: getEnvInt(...), RatePeriod: getEnv(...)}
Configured(b) ==
    [b EXCEPT !.pc = "config",
              !.RateLimit = getEnvInt(b.RATE_LIMIT, DefaultRateLimit),
              !.RatePeriod = getEnv(b.RATE_PERIOD, DefaultRatePeriod)]

\* ratePeriod, err := time.ParseDuration(config.RatePeriod); logger.Fatal on err
Parsed(b) ==
    LET d == ParseDuration(b.RatePeriod)
    IN  IF d.ok THEN [b EXCEPT !.pc = "parsed", !.ratePeriod = d.val]
        ELSE [b EXCEPT !.pc = "fatal"]

\* router.Use(RateLimitMiddleware(logger, rdb, RateLimiterConfig{Rate:
\* config.RateLimit, Period: ratePeriod})): the limit every check is made with
Serving(b) ==
    [b EXCEPT !.pc = "serving",
              !.limit = LimitOf([Rate |-> b.RateLimit, Period |-> b.ratePeriod])]

\* the settings the process is started with
RateLimitSettings ==
    {Unset} \cup {Setting(t) : t \in {Itoa(-1), Itoa(0), Itoa(1), Itoa(Rate),
                                      <<97, 98, 99>>, <<>>}}
RatePeriodSettings ==
    {Unset} \cup {Setting(t) : t \in {Itoa(-1) \o <<115>>, <<48, 115>>, <<48>>,
                                      Itoa(Period) \o <<115>>, <<49, 109>>,
                                      <<97, 98, 99>>, <<>>}}

LoadConfig ==
    /\ boot.pc = "start"
    /\ boot' = Configured(boot)
    /\ UNCHANGED <<now, rdb, store, req, win, db, call>>

ParseRatePeriod ==
    /\ boot.pc = "config"
    /\ boot' = Parsed(boot)
    /\ UNCHANGED <<now, rdb, store, req, win, db, call>>

UseRateLimit ==
    /\ boot.pc = "parsed"
    /\ boot' = Serving(boot)
    /\ UNCHANGED <<now, rdb, store, req, win, db, call>>

\* the server, started with RATE_LIMIT = Rate and RATE_PERIOD = Period seconds
Init ==
    /\ InitServer
    /\ boot = Serving(Parsed(Configured(Started(Setting(Itoa(Rate)),
                                                Setting(Itoa(Period) \o <<115>>)))))

InitStartup ==
    /\ InitServer
    /\ \E rl \in RateLimitSettings, rp \in RatePeriodSettings : boot = Started(rl, rp)

NextStartup == LoadConfig \/ ParseRatePeriod \/ UseRateLimit

\* The start-up of main under every setting of RATE_LIMIT and RATE_PERIOD.
SpecStartup == InitStartup /\ [][NextStartup]_vars

(* --------------------------- process start-up -------------------------- *)

\* RateLimitMiddleware(logger, config): the middleware makes its own client
\* and its deferred Close runs when the constructor returns the handler.
RateLimitMiddleware ==
    /\ rdb = "unset"
    /\ rdb' = "closed"
    /\ UNCHANGED <<now, store, req, win, boot, db, call>>

\* main: the client is made and pinged by main, handed to the middleware and
\* closed only when main returns.
main ==
    /\ rdb = "unset"
    /\ rdb' = "open"
    /\ UNCHANGED <<now, store, req, win, boot, db, call>>

(* ------------------------- the limiter's script ------------------------ *)

\* the limit with twice the rate for the same period
LimitDoubleRate == [Rate |-> 2 * Rate, Burst |-> Rate, Period |-> Period]

\* the limit with a burst one above the rate
LimitBurstAboveRate == [Rate |-> Rate, Burst |-> Rate + 1, Period |-> Period]

\* the limit of the running server
Limit == LimitOf([Rate |-> Rate, Period |-> Period])

\* the script, were it to store the advanced arrival time of a refused check
AllowNChargesRefusal(e, t, limit) ==
    LET emission == limit.Period \div limit.Rate
        tat == IF e.present THEN Max(e.tat, t) ELSE t
        diff == t - (tat + emission - emission * limit.Burst)
    IN  IF diff < 0
        THEN <<[Allowed |-> 0, Remaining |-> 0, RetryAfter |-> -diff,
                ResetAfter |-> tat - t],
               [present |-> TRUE, tat |-> tat + emission, exp |-> tat + emission]>>
        ELSE <<[Allowed |-> 1, Remaining |-> diff \div emission, RetryAfter |-> -1,
                ResetAfter |-> tat + emission - t],
               [present |-> TRUE, tat |-> tat + emission, exp |-> tat + emission]>>

\* The GCRA script limiter.Allow runs in the store, as one indivisible step,
\* on the entry e of a key at store time t: <<result, new entry>>.
AllowN(e, t, limit) ==
    LET emission == limit.Period \div limit.Rate
        burstOffset == emission * limit.Burst
        tat == IF e.present THEN Max(e.tat, t) ELSE t
        newTat == tat + emission
        allowAt == newTat - burstOffset
        diff == t - allowAt
    IN  IF diff < 0
        THEN <<[Allowed |-> 0, Remaining |-> 0, RetryAfter |-> -diff,
                ResetAfter |-> tat - t], e>>
        ELSE <<[Allowed |-> 1, Remaining |-> diff \div emission, RetryAfter |-> -1,
                ResetAfter |-> newTat - t],
               [present |-> TRUE, tat |-> newTat, exp |-> t + (newTat - t)]>>

(* ------------------------- the authentication gate --------------------- *)

\* One space-separated field of the Authorization header
Word(w) == [word |-> w, tok |-> Garbage]
Field(tok) == [word |-> "<token>", tok |-> tok]

\* The Authorization headers requests arrive with, as strings.Split(h, " ")
\* sees them; <<>> is the empty header.
AuthHeaders ==
    { <<>>,
      <<Word("Bearer")>>,
      <<Word("Basic"), Field(Token(7, "admin", MaxTime + 1, JWTSecret))>>,
      <<Word("Bearer"), Field(Token(7, "admin", MaxTime + 1, JWTSecret)), Word("x")>>,
      <<Word("Bearer"), Field(Garbage)>>,
      <<Word("Bearer"), Field(Token(7, "admin", MaxTime + 1, "other-secret"))>>,
      <<Word("Bearer"), Field(Token(7, "admin", 1, JWTSecret))>>,
      <<Word("Bearer"), Field(Token(7, "admin", MaxTime + 1, JWTSecret))>>,
      <<Word("Bearer"), Field(Token(8, "user", -1, JWTSecret))>> }

\* the parse without the check of the signature and of the expiry
ParseUnverified(tok, secret, t) == tok.wellformed

\* jwt.ParseWithClaims(parts[1], &Claims{}, keyfunc) at time t: err == nil and
\* token.Valid
ParseWithClaims(tok, secret, t) ==
    /\ tok.wellformed
    /\ tok.key = secret
    /\ (tok.exp = -1 \/ t < tok.exp)

\* customErrors.ErrUnauthorized
ErrUnauthorized == "unauthorized"

\* c.JSON(status, body) followed by c.Abort() and return
AbortWith(q, status, code) ==
    [q EXCEPT !.status = status, !.code = code, !.aborted = TRUE]

\* the accepting branch, were it to attach the subject id alone
AuthAcceptWithoutRole(q, tok) ==
    [q EXCEPT !.ctx = [has |-> TRUE, user_id |-> tok.user_id, role |-> ""]]

\* c.Set("user_id", claims.UserID); c.Set("role", claims.Role); c.Next()
AuthAccept(q, tok) ==
    [q EXCEPT !.ctx = [has |-> TRUE, user_id |-> tok.user_id, role |-> tok.role]]

\* The handler AuthMiddleware(logger, jwtSecret) returns, on a request whose
\* Authorization header is h, at time t
AuthHandler(jwtSecret, q, h, t) ==
    IF h = <<>> THEN AbortWith(q, 401, ErrUnauthorized)
    ELSE IF Len(h) # 2 \/ h[1].word # "Bearer"
         THEN AbortWith(q, 401, "invalid_auth_header")
    ELSE IF ~ParseWithClaims(h[2].tok, jwtSecret, t)
         THEN AbortWith(q, 401, "invalid_token")
    ELSE AuthAccept(q, h[2].tok)

\* users.Use(middleware.AuthMiddleware(logrus.New(), jwtSecret))
AuthMiddleware(q, h, t) == AuthHandler(JWTSecret, q, h, t)

(* --------------------------- the route handlers ------------------------ *)

\* the statuses h.Login and h.CreateUser answer with
HandlerStatuses(route) ==
    IF route = "/login" THEN {400, 401, 500, 200} ELSE {400, 500, 201}

\* the route handler runs, last in the chain, with the context it is given
RouteHandler(q, status) ==
    [q EXCEPT !.handlerRuns = @ + 1, !.seen = q.ctx, !.status = status]

(* -------------------------- the handler chain -------------------------- *)

\* The handlers of a route, in the order main registers them with router.Use
\* and RegisterUserRoutes adds the group's and the route's own.
Chain(route) ==
    <<"Logger", "RateLimit", "Prometheus", "ErrorLogging">>
        \o (IF route = "/users" THEN <<"Auth">> ELSE <<>>)
        \o <<"Handler">>

\* the end of the chain: the c.Next() calls return and the wrappers that were
\* entered do their work after c.Next()
ChainReturn(q) ==
    [q EXCEPT !.pc = "done",
              !.metered = IF "Prometheus" \in q.ran THEN q.metered + 1 ELSE q.metered,
              !.logged = IF "Logger" \in q.ran THEN q.logged + 1 ELSE q.logged]

\* One handler of the chain is entered and runs up to its c.Next() or return
Enter(name, q, h, status, t) ==
    LET q1 == [q EXCEPT !.ran = @ \cup {name}, !.index = @ + 1]
    IN  CASE name = "Auth" -> AuthMiddleware([q1 EXCEPT !.authz = h], h, t)
          [] name = "Handler" -> RouteHandler(q1, status)
          [] OTHER -> q1

\* gin's Context.Next: the handlers from c.index on run one after the other
\* until the chain ends, one aborts it, or the rate-limit handler calls the
\* store
RECURSIVE RunChain(_, _, _, _)
RunChain(q, h, status, t) ==
    LET c == Chain(q.route)
    IN  IF q.aborted \/ q.index > Len(c) THEN ChainReturn(q)
        ELSE IF c[q.index] = "RateLimit"
             THEN [q EXCEPT !.ran = @ \cup {"RateLimit"}, !.index = @ + 1,
                            !.pc = "call"]
        ELSE RunChain(Enter(c[q.index], q, h, status, t), h, status, t)

\* what the handlers that run before the next call to the store read of the
\* request: the Authorization header if AuthMiddleware is one of them, the
\* route handler's outcome if it is
Pending(q) ==
    LET c == Chain(q.route)
        stop == IF \E i \in q.index..Len(c) : c[i] = "RateLimit"
                THEN CHOOSE i \in q.index..Len(c) :
                        c[i] = "RateLimit" /\ \A j \in q.index..(i - 1) : c[j] # "RateLimit"
                ELSE Len(c) + 1
    IN  {c[i] : i \in q.index..(stop - 1)}

HeadersRead(q) == IF "Auth" \in Pending(q) THEN AuthHeaders ELSE {<<>>}
StatusesRead(q) == IF "Handler" \in Pending(q) THEN HandlerStatuses(q.route) ELSE {0}

\* the engine takes a context from its pool for a request and runs the chain
ServeHTTP(r) ==
    /\ rdb # "unset"
    /\ req[r].pc = "new"
    /\ \E route \in Routes, key \in Keys :
          LET q == [NewRequest EXCEPT !.route = route, !.key = key]
          IN  \E h \in HeadersRead(q), status \in StatusesRead(q) :
                 req' = [req EXCEPT ![r] = RunChain(q, h, status, now)]
    /\ UNCHANGED <<now, rdb, store, win, boot, db, call>>

\* limiter.Allow(context.Background(), key, Limit): a closed client answers
\* at once with an error, an open one sends the script to the store
RateLimitCall(r) ==
    /\ req[r].pc = "call"
    /\ req' = [req EXCEPT ![r] =
                  IF rdb = "closed"
                  THEN [@ EXCEPT !.pc = "replied", !.err = "closed",
                                 !.callctx = Background]
                  ELSE [@ EXCEPT !.pc = "inflight", !.callctx = Background]]
    /\ UNCHANGED <<now, rdb, store, win, boot, db, call>>

\* The client of request r goes away, or the server's deadline for r passes,
\* while the limiter's call is in flight: c.Request.Context() is cancelled.
\* The call was made with context.Background() and the handler does not look
\* at the request's context, so nothing else changes.
Cancel(r) ==
    /\ req[r].pc = "inflight"
    /\ ~req[r].cancelled
    /\ req' = [req EXCEPT ![r].cancelled = TRUE]
    /\ UNCHANGED <<now, rdb, store, win, boot, db, call>>

\* What the checks on a key are told, from a check that finds the bucket
\* empty (entry e absent or its arrival time not after t) until one emission
\* interval later: the time of that check, the checks allowed and whether one
\* was refused
Observe(w, e, t, res) ==
    IF ~e.present \/ e.tat <= t
    THEN [first |-> t, granted |-> res.Allowed, refused |-> res.Allowed = 0]
    ELSE IF t < w.first + EmissionSecs
         THEN [w EXCEPT !.granted = @ + res.Allowed,
                        !.refused = @ \/ res.Allowed = 0]
         ELSE w

\* the store runs the script of an in-flight call and answers
StoreEval(r) ==
    /\ req[r].pc = "inflight"
    /\ LET k == req[r].key
           out == AllowN(store[k], now, Limit)
       IN  /\ store' = [store EXCEPT ![k] = out[2]]
           /\ req' = [req EXCEPT ![r] = [@ EXCEPT !.pc = "replied", !.res = out[1]]]
           /\ win' = [win EXCEPT ![k] = Observe(@, store[k], now, out[1])]
    /\ UNCHANGED <<now, rdb, boot, db, call>>

\* the store or the connection to it answers the call with an error
StoreFail(r) ==
    /\ req[r].pc = "inflight"
    /\ req' = [req EXCEPT ![r] = [@ EXCEPT !.pc = "replied", !.err = "unavailable"]]
    /\ UNCHANGED <<now, rdb, store, win, boot, db, call>>

\* the error branch, were it to let the request through
InternalErrorFailOpen(q) == q

\* err != nil
InternalError(q) == AbortWith(q, 500, "internal_server_error")

\* the refusal branch without its c.Abort()
ThrottledNoAbort(q) ==
    [q EXCEPT !.hdr.RetryAfter = DurationString(q.res.RetryAfter),
              !.status = 429, !.code = "rate_limit_exceeded"]

\* res.Allowed <= 0
Throttled(q) ==
    AbortWith([q EXCEPT !.hdr.RetryAfter = DurationString(q.res.RetryAfter)],
              429, "rate_limit_exceeded")

\* the quota headers that precede c.Next()
Admitted(q, t) ==
    [q EXCEPT !.hdr.Limit = RuneString(Limit.Rate),
              !.hdr.Remaining = RuneString(q.res.Remaining),
              !.hdr.Reset = FormatRFC1123(t + q.res.ResetAfter)]

\* the rate-limit handler from the return of limiter.Allow
RateLimitDecide(q, t) ==
    IF q.err # "" THEN InternalError(q)
    ELSE IF q.res.Allowed <= 0 THEN Throttled(q)
    ELSE Admitted(q, t)

\* limiter.Allow returns and the rate-limit handler goes on: it answers 500
\* or 429 and aborts, or sets the quota headers and calls c.Next(), which runs
\* the rest of the chain
RateLimitReturn(r) ==
    /\ req[r].pc = "replied"
    /\ LET q == RateLimitDecide(req[r], now)
       IN  \E h \in HeadersRead(q), status \in StatusesRead(q) :
              req' = [req EXCEPT ![r] = RunChain(q, h, status, now)]
    /\ UNCHANGED <<now, rdb, store, win, boot, db, call>>

\* the response is written and the context goes back to the pool
Release(r) ==
    /\ req[r].pc = "done"
    /\ req' = [req EXCEPT ![r] = NewRequest]
    /\ UNCHANGED <<now, rdb, store, win, boot, db, call>>

\* limiter.Allow has returned: the rate-limit handler goes on, the chain ends
\* and the context goes back to the pool (RateLimitReturn, then Release)
Respond(r) ==
    /\ req[r].pc = "replied"
    /\ req' = [req EXCEPT ![r] = NewRequest]
    /\ UNCHANGED <<now, rdb, store, win, boot, db, call>>

\* the requests whose chain is followed handler by handler to the response
Followed == {1, 2}

Next ==
    \/ Tick
    \/ \E k \in Keys : Expire(k)
    \/ RateLimitMiddleware
    \/ main
    \/ \E r \in Followed : ServeHTTP(r)
    \/ \E r \in Followed : RateLimitCall(r)
    \/ \E r \in Followed : StoreEval(r)
    \/ \E r \in Followed : StoreFail(r)
    \/ \E r \in Followed : Cancel(r)
    \/ \E r \in Followed : RateLimitReturn(r)
    \/ \E r \in Followed : Release(r)

\* Requests served one after the other by each of two workers, each followed
\* through every handler of its chain to the response.
Spec == Init /\ [][Next]_vars

NextLimiter ==
    \/ Tick
    \/ \E k \in Keys : Expire(k)
    \/ RateLimitMiddleware
    \/ main
    \/ \E r \in Reqs : ServeHTTP(r)
    \/ \E r \in Reqs : RateLimitCall(r)
    \/ \E r \in Reqs : StoreEval(r)
    \/ \E r \in Reqs : StoreFail(r)
    \/ \E r \in Reqs : Respond(r)

\* NReq requests racing on the store: each is followed up to the decision it
\* is given.
SpecLimiter == Init /\ [][NextLimiter]_vars

(* --------------------------- the user service -------------------------- *)

MaxSeq == 3          \* ids the users' sequence hands out

Emails == {"ann@example.com", "bob@example.com"}
Usernames == {"ann", "bob"}
Passwords == {"pw1", "pw2"}
Secrets == {JWTSecret, "other-secret"}

TokenTTL == 86400    \* 24 * time.Hour, in seconds

\* customErrors.ErrInternalServerError
ErrInternalServerError == "internal_server_error"

\* how a statement sent to the database ends: it is run and answered, it is
\* not run and an error comes back, or it is run and the answer is lost
Outcomes == {"ok", "failed", "lost"}

\* bcrypt.GenerateFromPassword(pw, cost): a hash that pw, and only pw, matches
GenerateFromPassword(pw) == <<"$2a$", pw>>

\* bcrypt.CompareHashAndPassword(hash, pw) == nil
CompareHashAndPassword(hash, pw) == hash = <<"$2a$", pw>>

\* h.CreateUser has bound the request body and calls the service
CallCreateUser ==
    /\ call.op = "none"
    /\ db.seq <= MaxSeq
    /\ \E e \in Emails, u \in Usernames, pw \in Passwords :
          call' = [NoCall EXCEPT !.op = "CreateUser", !.pc = "begin", !.email = e,
                                 !.username = u, !.password = pw]
    /\ UNCHANGED <<now, rdb, store, req, win, boot, db>>

\* tx, err := db.BeginTx(ctx); if err != nil { return err }
BeginTx ==
    /\ call.pc = "begin"
    /\ \E ok \in BOOLEAN :
          call' = IF ok
                  THEN [call EXCEPT !.pc = "hash", !.began = TRUE,
                                    !.tx = [NoTx EXCEPT !.state = "open"]]
                  ELSE [call EXCEPT !.pc = "txdone", !.err = "begin failed"]
    /\ UNCHANGED <<now, rdb, store, req, win, boot, db>>

\* fn: hashedPassword, err := bcrypt.GenerateFromPassword(...)
HashPassword ==
    /\ call.pc = "hash"
    /\ \E ok \in BOOLEAN :
          call' = IF ok
                  THEN [call EXCEPT !.pc = "insert",
                                    !.hash = GenerateFromPassword(call.password)]
                  ELSE [call EXCEPT !.pc = "fnreturned",
                                    !.fnErr = ErrInternalServerError]
    /\ UNCHANGED <<now, rdb, store, req, win, boot, db>>

\* the insert, were it made on the pool's queries and not on the transaction's
CreateUserOnPool(c, d, ok) ==
    LET taken == \E u \in d.users : u.email = c.email \/ u.username = c.username
        user == [id |-> d.seq, username |-> c.username, email |-> c.email,
                 password_hash |-> c.hash, role |-> "user"]
    IN  IF ok /\ ~taken
        THEN <<[c EXCEPT !.pc = "audit", !.user = user],
               [d EXCEPT !.seq = @ + 1, !.users = @ \cup {user}]>>
        ELSE <<[c EXCEPT !.pc = "fnreturned", !.fnErr = ErrInternalServerError], d>>

\* fn: user, err = queries.CreateUser(ctx, params), on the transaction: the
\* row is the transaction's until it commits; username and email are unique
\* and the role is the column's default; <<call, db>>
CreateUserInTx(c, d, ok) ==
    LET taken == \E u \in d.users : u.email = c.email \/ u.username = c.username
        user == [id |-> d.seq, username |-> c.username, email |-> c.email,
                 password_hash |-> c.hash, role |-> "user"]
    IN  IF ok /\ ~taken
        THEN <<[c EXCEPT !.pc = "audit", !.user = user, !.tx.users = @ \cup {user}],
               [d EXCEPT !.seq = @ + 1]>>
        ELSE <<[c EXCEPT !.pc = "fnreturned", !.fnErr = ErrInternalServerError], d>>

InsertUser ==
    /\ call.pc = "insert"
    /\ \E ok \in BOOLEAN :
          LET out == CreateUserInTx(call, db, ok)
          IN  call' = out[1] /\ db' = out[2]
    /\ UNCHANGED <<now, rdb, store, req, win, boot>>

\* fn: _, err = queries.CreateAuditLog(ctx, {UserID: user.ID, Action:
\* "user_created"}); return nil
InsertAudit ==
    /\ call.pc = "audit"
    /\ \E ok \in BOOLEAN :
          call' = IF ok
                  THEN [call EXCEPT !.pc = "fnreturned",
                                    !.tx.audits = @ \cup {[user_id |-> call.user.id,
                                                           action |-> "user_created"]}]
                  ELSE [call EXCEPT !.pc = "fnreturned",
                                    !.fnErr = ErrInternalServerError]
    /\ UNCHANGED <<now, rdb, store, req, win, boot, db>>

\* the end of WithTx, were it to commit whatever fn returned
WithTxCommitsAlways(c, d, out) ==
    <<[c EXCEPT !.pc = "txdone", !.commits = @ + 1,
                !.tx = [NoTx EXCEPT !.state = "committed"], !.err = c.fnErr],
      [d EXCEPT !.users = @ \cup c.tx.users, !.audits = @ \cup c.tx.audits]>>

\* WithTx after fn has returned: tx.Rollback if fn failed, tx.Commit if not;
\* out is how the statement ends; <<call, db>>
WithTxEnd(c, d, out) ==
    IF c.fnErr # ""
    THEN <<[c EXCEPT !.pc = "txdone", !.rollbacks = @ + 1,
                     !.tx = [NoTx EXCEPT !.state = "rolledback"],
                     !.rbErr = IF out = "ok" THEN "" ELSE "rollback failed",
                     !.err = IF out = "ok" THEN c.fnErr ELSE "rollback failed"], d>>
    ELSE IF out = "failed"
         THEN <<[c EXCEPT !.pc = "txdone", !.commits = @ + 1,
                          !.tx = [NoTx EXCEPT !.state = "rolledback"],
                          !.commitErr = "commit failed", !.err = "commit failed"], d>>
    ELSE <<[c EXCEPT !.pc = "txdone", !.commits = @ + 1,
                     !.tx = [NoTx EXCEPT !.state = "committed"],
                     !.commitErr = IF out = "ok" THEN "" ELSE "commit failed",
                     !.err = IF out = "ok" THEN "" ELSE "commit failed"],
           [d EXCEPT !.users = @ \cup c.tx.users, !.audits = @ \cup c.tx.audits]>>

EndTx ==
    /\ call.pc = "fnreturned"
    /\ \E out \in Outcomes :
          LET end == WithTxEnd(call, db, out)
          IN  call' = end[1] /\ db' = end[2]
    /\ UNCHANGED <<now, rdb, store, req, win, boot>>

\* WithTx has returned: the service returns (user, nil) or (User{}, err) and
\* the handler answers 201 or 500
CreateUserReturn ==
    /\ call.op = "CreateUser"
    /\ call.pc = "txdone"
    /\ call' = [call EXCEPT !.pc = "returned",
                            !.user = IF call.err # "" THEN NoUser ELSE call.user,
                            !.status = IF call.err # "" THEN 500 ELSE 201]
    /\ UNCHANGED <<now, rdb, store, req, win, boot, db>>

\* the handler has answered
Return ==
    /\ call.pc = "returned"
    /\ call' = NoCall
    /\ UNCHANGED <<now, rdb, store, req, win, boot, db>>

\* the bodies POST /login arrives with: one ShouldBindJSON rejects, or an
\* email and a password
LoginBodies ==
    {[ok |-> FALSE, email |-> "", password |-> ""]}
        \cup {[ok |-> TRUE, email |-> e, password |-> pw] : e \in Emails, pw \in Passwords}

\* h.Login: c.ShouldBindJSON(&req), 400 on error, else h.userService.Login
CallLogin ==
    /\ call.op = "none"
    /\ \E body \in LoginBodies :
          call' = IF body.ok
                  THEN [NoCall EXCEPT !.op = "Login", !.pc = "lookup",
                                      !.email = body.email, !.password = body.password]
                  ELSE [NoCall EXCEPT !.op = "Login", !.pc = "returned", !.status = 400]
    /\ UNCHANGED <<now, rdb, store, req, win, boot, db>>

\* UserService.Login returns (User{}, err) and h.Login answers 401
LoginFailed(c, err) ==
    [c EXCEPT !.pc = "returned", !.err = err, !.user = NoUser, !.status = 401]

\* user, err := s.db.Queries.GetUserByEmail(ctx, email): a storage failure,
\* sql.ErrNoRows, or the row
GetUserByEmail ==
    /\ call.pc = "lookup"
    /\ \E ok \in BOOLEAN :
          call' = IF ~ok THEN LoginFailed(call, ErrInternalServerError)
                  ELSE IF \A u \in db.users : u.email # call.email
                       THEN LoginFailed(call, ErrUnauthorized)
                  ELSE [call EXCEPT !.pc = "compare",
                                    !.user = CHOOSE u \in db.users : u.email = call.email]
    /\ UNCHANGED <<now, rdb, store, req, win, boot, db>>

\* the service, were it to return the user without comparing the password
PasswordUnchecked(c) == [c EXCEPT !.pc = "sign"]

\* bcrypt.CompareHashAndPassword(user.PasswordHash, password): ErrUnauthorized
\* on a mismatch, else return user, nil
PasswordChecked(c) ==
    IF CompareHashAndPassword(c.user.password_hash, c.password)
    THEN [c EXCEPT !.pc = "sign"]
    ELSE LoginFailed(c, ErrUnauthorized)

CheckPassword ==
    /\ call.pc = "compare"
    /\ call' = PasswordChecked(call)
    /\ UNCHANGED <<now, rdb, store, req, win, boot, db>>

\* the claims, were the role left out
LoginClaimsWithoutRole(user, t) ==
    [UserID |-> user.id, Role |-> "", ExpiresAt |-> t + TokenTTL, IssuedAt |-> t]

\* middleware.Claims{UserID: user.ID, Role: user.Role, ExpiresAt: now + 24h,
\* IssuedAt: now}
LoginClaims(user, t) ==
    [UserID |-> user.id, Role |-> user.role, ExpiresAt |-> t + TokenTTL, IssuedAt |-> t]

\* jwt.NewWithClaims(jwt.SigningMethodHS256, claims).SignedString(key)
SignedString(claims, key) == Token(claims.UserID, claims.Role, claims.ExpiresAt, key)

\* token.SignedString([]byte(h.jwtSecret)): 500 on error, else 200 and the token
SignToken ==
    /\ call.pc = "sign"
    /\ \E ok \in BOOLEAN :
          call' = IF ok
                  THEN [call EXCEPT !.pc = "returned", !.status = 200, !.iat = now,
                                    !.token = SignedString(LoginClaims(call.user, now),
                                                           JWTSecret)]
                  ELSE [call EXCEPT !.pc = "returned", !.status = 500]
    /\ UNCHANGED <<now, rdb, store, req, win, boot, db>>

\* the times a token issued at iat is presented at: at once, a second before
\* its expiry, at its expiry and after it
PresentTimes(iat) == {iat, iat + TokenTTL - 1, iat + TokenTTL, iat + TokenTTL + 1}

\* The token h.Login returned is sent as "Bearer <token>" to a route guarded
\* by AuthMiddleware(logger, secret), which handles it at time t
PresentToken ==
    /\ call.op = "Login"
    /\ call.pc = "returned"
    /\ call.status = 200
    /\ ~call.gate.presented
    /\ \E secret \in Secrets, t \in PresentTimes(call.iat) :
          call' = [call EXCEPT !.gate =
                      [presented |-> TRUE, secret |-> secret, at |-> t,
                       q |-> AuthHandler(secret, [NewRequest EXCEPT !.route = "/users"],
                                         <<Word("Bearer"), Field(call.token)>>, t)]]
    /\ UNCHANGED <<now, rdb, store, req, win, boot, db>>

NextUsers ==
    \/ Tick
    \/ CallCreateUser
    \/ BeginTx
    \/ HashPassword
    \/ InsertUser
    \/ InsertAudit
    \/ EndTx
    \/ CreateUserReturn
    \/ CallLogin
    \/ GetUserByEmail
    \/ CheckPassword
    \/ SignToken
    \/ PresentToken
    \/ Return

\* The user handlers, one call after the other, on the database.
SpecUsers == Init /\ [][NextUsers]_vars

(* ------------------------- what the claims state ----------------------- *)

\* the handlers that come after the rate-limit handler in a chain
Downstream == {"Prometheus", "ErrorLogging", "Auth", "Handler"}

\* request r got a decision of the limiter (limiter.Allow returned no error)
Decided(r) == "RateLimit" \in req[r].ran /\ req[r].err = "" /\ req[r].pc \in {"replied", "done"}

\* the units left in the bucket of key k: the checks that would conform now
Units(k) ==
    LET backlog == IF store[k].present /\ store[k].tat > now THEN store[k].tat - now ELSE 0
    IN  Rate - ((backlog + EmissionSecs - 1) \div EmissionSecs)

\* the store answers the in-flight call of request r in this step
Answered(r) ==
    /\ req[r].pc = "inflight"
    /\ req'[r].pc = "replied"
    /\ req'[r].err = ""

\* C1: in every interleaving of the checks of concurrent requests, a check is
\* told allowed exactly when its key's bucket has a unit left at the moment
\* the store runs it, and an allowed check takes exactly one unit: so when one
\* unit is left at most one check gets it, N checks on N units all succeed and
\* the check after them is refused.
C1_AtomicAdmission ==
    [][\A r \in Reqs :
          Answered(r) =>
             LET k == req[r].key
             IN  /\ (req'[r].res.Allowed > 0) <=> (Units(k) >= 1)
                 /\ req'[r].res.Allowed > 0 => Units(k)' = Units(k) - 1
                 /\ req'[r].res.Allowed <= 0 => Units(k)' = Units(k)]_vars

\* C1 witness: three checks on one key were answered at the same instant, two
\* were told allowed, with different remaining counts, and the third refused
C1_Witness ==
    \E k \in Keys, r1, r2, r3 \in Reqs :
       /\ \A r \in {r1, r2, r3} :
             req[r].pc = "replied" /\ req[r].err = "" /\ req[r].key = k
       /\ req[r1].res.Allowed > 0 /\ req[r2].res.Allowed > 0
       /\ req[r1].res.Remaining = 1 /\ req[r2].res.Remaining = 0
       /\ req[r3].res.Allowed <= 0
       /\ win[k] = [first |-> now, granted |-> 2, refused |-> TRUE]

\* C2: a request whose decision was not allowed is answered 429 with a
\* Retry-After header, its chain is aborted and no handler after the
\* rate-limit handler has run for it.
C2_ThrottledStops ==
    \A r \in Reqs :
       (req[r].pc = "done" /\ Decided(r) /\ req[r].res.Allowed <= 0) =>
          /\ req[r].status = 429
          /\ req[r].hdr.RetryAfter # <<>>
          /\ req[r].aborted
          /\ req[r].ran \cap Downstream = {}
          /\ req[r].handlerRuns = 0

C2_Witness ==
    \E r \in Reqs :
       /\ req[r].pc = "done" /\ Decided(r) /\ req[r].res.Allowed <= 0
       /\ req[r].status = 429

\* C3: a request whose limiter call returned an error is answered 500, its
\* chain is aborted and no handler after the rate-limit handler has run for
\* it: a store error never lets a request through.
C3_FailClosed ==
    \A r \in Reqs :
       (req[r].pc = "done" /\ req[r].err # "") =>
          /\ req[r].status = 500
          /\ req[r].aborted
          /\ req[r].ran \cap Downstream = {}
          /\ req[r].handlerRuns = 0

C3_Witness ==
    \E r \in Reqs :
       req[r].pc = "done" /\ req[r].err = "unavailable" /\ req[r].status = 500

\* C4: of the checks made on a key before one emission interval has passed
\* since a check found its bucket empty, at most burst (= rate) are allowed,
\* and one is refused only after burst of them were allowed.
C4_BurstThenRefuse ==
    \A k \in Keys :
       /\ win[k].granted <= Rate
       /\ win[k].refused => win[k].granted = Rate

\* C4 witness: the burst was allowed, a further check in the window was
\* refused, and a check made an emission interval after the first is allowed
C4_Witness ==
    \E k \in Keys, r \in Reqs :
       /\ win[k].granted = Rate /\ win[k].refused
       /\ now >= win[k].first + EmissionSecs
       /\ req[r].pc = "inflight" /\ req[r].key = k
       /\ Units(k) >= 1

\* C5: a refused check leaves the store as it was, and so the time at which
\* the key's next check is allowed.
C5_RefusalKeepsState ==
    [][\A r \in Reqs :
          (Answered(r) /\ req'[r].res.Allowed <= 0) => store' = store]_vars

C5_Witness ==
    \E r \in Reqs :
       /\ req[r].pc = "replied" /\ req[r].err = "" /\ req[r].res.Allowed <= 0
       /\ store[req[r].key].present

\* the rate-limit handler of request r goes on after limiter.Allow and the
\* chain of r ends in this step
Returned(r) == req[r].pc = "replied" /\ req'[r].pc = "done"

\* the Authorization header h is missing, is not "Bearer <token>", or carries
\* a token that does not decode, is not signed with the secret or is expired
\* at time t
MissingHeader(h) == h = <<>>
MalformedHeader(h) == h # <<>> /\ ~(Len(h) = 2 /\ h[1].word = "Bearer")
InvalidToken(h, t) ==
    /\ Len(h) = 2 /\ h[1].word = "Bearer"
    /\ \/ ~h[2].tok.wellformed
       \/ h[2].tok.key # JWTSecret
       \/ (h[2].tok.exp # -1 /\ t >= h[2].tok.exp)

\* the authentication gate ran for request r and rejected it
AuthRejected(r) == req[r].pc = "done" /\ "Auth" \in req[r].ran /\ req[r].aborted

\* C6: when AuthMiddleware runs on a request whose Authorization header is
\* missing, malformed or carries an invalid token, the response is 401, the
\* chain is aborted, no user_id or role is in the context and the route
\* handler does not run.
C6_RejectsBadCredentials ==
    [][\A r \in Reqs :
          (/\ Returned(r)
           /\ "Auth" \in req'[r].ran
           /\ LET h == req'[r].authz
              IN  MissingHeader(h) \/ MalformedHeader(h) \/ InvalidToken(h, now))
          => /\ req'[r].status = 401
             /\ req'[r].aborted
             /\ req'[r].ctx = NoCtx
             /\ "Handler" \notin req'[r].ran
             /\ req'[r].handlerRuns = 0]_vars

\* C6 witness: a request with a malformed header and a request with an expired
\* token were both rejected
C6_Witness ==
    \E r1, r2 \in Reqs :
       /\ AuthRejected(r1) /\ MalformedHeader(req[r1].authz) /\ req[r1].status = 401
       /\ AuthRejected(r2) /\ req[r2].status = 401
       /\ Len(req[r2].authz) = 2 /\ req[r2].authz[2].tok.wellformed
       /\ req[r2].authz[2].tok.key = JWTSecret
       /\ req[r2].authz[2].tok.exp # -1 /\ req[r2].authz[2].tok.exp <= now

\* C7: when AuthMiddleware accepts a request's token the route handler runs
\* exactly once, and the context it runs with holds the token's subject id as
\* user_id and the token's role as role.
C7_ClaimsReachHandler ==
    \A r \in Reqs :
       (req[r].pc = "done" /\ "Auth" \in req[r].ran /\ ~req[r].aborted) =>
          /\ req[r].handlerRuns = 1
          /\ req[r].seen.has
          /\ req[r].seen.user_id = req[r].authz[2].tok.user_id
          /\ req[r].seen.role = req[r].authz[2].tok.role

C7_Witness ==
    \E r \in Reqs :
       /\ req[r].pc = "done" /\ "Auth" \in req[r].ran /\ ~req[r].aborted
       /\ req[r].seen = [has |-> TRUE, user_id |-> 8, role |-> "user"]

\* C8: any two requests the authentication gate rejects get the same status
\* and the same body.
C8_FailuresLookAlike ==
    \A r1, r2 \in Reqs :
       (AuthRejected(r1) /\ AuthRejected(r2)) =>
          /\ req[r1].status = req[r2].status
          /\ req[r1].code = req[r2].code

\* C9: a request the authentication gate rejects has not reached the limiter:
\* the rate-limit handler has not run for it and it got no decision.
C9_AuthBeforeLimiter ==
    \A r \in Reqs :
       AuthRejected(r) => "RateLimit" \notin req[r].ran /\ req[r].res = NoRes

\* C10: when a request is allowed, the response carries X-RateLimit-Limit, the
\* decimal text of the configured rate, X-RateLimit-Remaining, the decimal
\* text of the decision's remaining count, which is in 0..rate-1, and
\* X-RateLimit-Reset, the time now + resetAfter.
C10_QuotaHeaders ==
    [][\A r \in Reqs :
          (Returned(r) /\ req[r].err = "" /\ req[r].res.Allowed > 0) =>
             /\ req'[r].hdr.Limit = Itoa(Rate)
             /\ req[r].res.Remaining \in 0..(Rate - 1)
             /\ req'[r].hdr.Remaining = Itoa(req[r].res.Remaining)
             /\ req'[r].hdr.Reset = now + req[r].res.ResetAfter]_vars

\* the text s is an HTTP-date (IMF-fixdate, "Sun, 06 Nov 1994 08:49:37 GMT")
IsHTTPDate(s) == Len(s) = 29 /\ s[4] = 44 /\ SubSeq(s, 27, 29) = <<71, 77, 84>>

\* C11: on a throttled response the Retry-After header is the decision's
\* retryAfter written as a number of seconds (its decimal text), or it is an
\* HTTP-date.
C11_RetryAfterSeconds ==
    \A r \in Reqs :
       (req[r].pc = "done" /\ Decided(r) /\ req[r].res.Allowed <= 0) =>
          \/ req[r].hdr.RetryAfter = Itoa(req[r].res.RetryAfter)
          \/ IsHTTPDate(req[r].hdr.RetryAfter)

C13_LimitIsPositive ==
    boot.pc = "serving" =>
       /\ boot.limit.Rate >= 1
       /\ boot.limit.Burst >= 1
       /\ boot.limit.Period > 0

\* C14: for a request cancelled while its limiter check was in flight, the
\* result of the check is discarded: no status and no header is written and no
\* handler after the rate-limit handler runs.
C14_CancelledResultDiscarded ==
    \A r \in Reqs :
       (req[r].pc = "done" /\ req[r].cancelled) =>
          /\ req[r].status = 0
          /\ req[r].hdr = NoHeaders
          /\ req[r].ran \cap Downstream = {}
          /\ req[r].handlerRuns = 0

\* C15: a user row is persisted exactly when its user_created audit record
\* is: whatever step of CreateUser fails, the database holds both or neither.
C15_UserWithAudit ==
    /\ \A u \in db.users :
          [user_id |-> u.id, action |-> "user_created"] \in db.audits
    /\ \A a \in db.audits :
          a.action = "user_created" /\ \E u \in db.users : u.id = a.user_id

\* C15 witness: one CreateUser has persisted a user with its audit record and
\* another, whose audit insert failed after its user insert, has been rolled
\* back and has returned an error
C15_Witness ==
    /\ db.users # {}
    /\ call.op = "CreateUser" /\ call.pc = "txdone" /\ call.err # ""
    /\ call.user # NoUser /\ call.user \notin db.users
    /\ call.rollbacks = 1 /\ call.tx.state = "rolledback"

\* the user the login in progress is for: the row with the email of its body
LoginUser == CHOOSE u \in db.users : u.email = call.email

\* C16: a token Login issued, presented as "Bearer <token>" to AuthMiddleware,
\* is accepted with its user's id and role in the context when the gate has
\* Login's secret and the time is before the token's 24-hour expiry, and is
\* rejected with 401 and nothing in the context when the gate has another
\* secret or the expiry has come.
C16_LoginAuthRoundTrip ==
    call.gate.presented =>
       LET g == call.gate
           inTime == g.at < call.iat + TokenTTL
       IN  IF g.secret = JWTSecret /\ inTime
           THEN /\ ~g.q.aborted
                /\ g.q.ctx = [has |-> TRUE, user_id |-> LoginUser.id,
                              role |-> LoginUser.role]
           ELSE /\ g.q.aborted
                /\ g.q.status = 401
                /\ g.q.ctx = NoCtx

\* C16 witness: the token of the second user is accepted one second before
\* its expiry
C16_Witness ==
    /\ call.gate.presented
    /\ call.gate.secret = JWTSecret
    /\ call.gate.at = call.iat + TokenTTL - 1
    /\ ~call.gate.q.aborted
    /\ call.gate.q.ctx = [has |-> TRUE, user_id |-> 2, role |-> "user"]

\* C18: Login returns a token only with status 200 and only when a user with
\* the body's email exists and the body's password matches that user's hash,
\* and the token then carries that user's id and role; a login answered with
\* any other status returns no token.
C18_TokenOnlyAfterMatch ==
    call.op = "Login" =>
       /\ call.token # Garbage =>
             /\ call.status = 200
             /\ \E u \in db.users :
                   /\ u.email = call.email
                   /\ CompareHashAndPassword(u.password_hash, call.password)
                   /\ call.token.user_id = u.id
                   /\ call.token.role = u.role
       /\ (call.pc = "returned" /\ call.status # 200) => call.token = Garbage

\* C18 witness: with two users in the database, the second has logged in and
\* got a token
C18_Witness ==
    /\ call.op = "Login" /\ call.pc = "returned" /\ call.status = 200
    /\ Cardinality(db.users) = 2
    /\ call.token.wellformed /\ call.token.user_id = 2

\* C19: a transaction WithTx has begun is ended by exactly one call of
\* Commit or Rollback, Commit exactly when fn returned nil, and WithTx
\* returns an error whenever fn, the rollback or the commit failed.
C19_OneCommitOrRollback ==
    LET ended == call.pc \in {"txdone", "returned"}
    IN  /\ call.commits + call.rollbacks <= 1
        /\ ~call.began => call.commits + call.rollbacks = 0
        /\ (ended /\ call.began) => call.commits + call.rollbacks = 1
        /\ call.commits = 1 => call.fnErr = ""
        /\ (ended /\ call.began /\ call.fnErr = "") => call.commits = 1
        /\ (ended /\ (call.fnErr # "" \/ call.rbErr # "" \/ call.commitErr # ""))
              => call.err # ""

\* C19 witness: fn failed after its insert and the rollback failed too
C19_Witness ==
    /\ call.pc = "txdone" /\ call.began
    /\ call.fnErr # "" /\ call.rbErr # ""
    /\ call.rollbacks = 1 /\ call.commits = 0
    /\ call.user # NoUser

\* C17: whenever the rate-limit handler makes or has made its check for a
\* request, the client it calls the store through is open, and no check
\* fails because the client was closed.
C17_ClientOpenAtCheck ==
    \A r \in Reqs :
       "RateLimit" \in req[r].ran => rdb = "open" /\ req[r].err # "closed"

\* C20: a request whose chain has ended, whatever its status, was recorded
\* once by PrometheusMiddleware and logged once by LoggerMiddleware.
C20_MeteredAndLoggedOnce ==
    \A r \in Reqs :
       req[r].pc = "done" => req[r].metered = 1 /\ req[r].logged = 1

====
